---- MODULE Spec2Model ----
(***************************************************************************)
(* A model of gdrive_downloader.py: the link classifier, the recursive     *)
(* folder expansion, the per-task download pipeline and the thread pool    *)
(* of GDriveDownloader.download_multiple.                                  *)
(*                                                                         *)
(* Representation.  A URL is a sequence of symbols: a symbol is either one *)
(* character outside the class [a-zA-Z0-9_-] or a word of characters of    *)
(* that class, and the string is the concatenation of the symbols.  The    *)
(* words are chosen so that a word of a regular expression of the source   *)
(* (file, d, folders, id, drive, google, com, open) occurs in a string     *)
(* only as a symbol of its own.  A page title or a header is a sequence    *)
(* of tokens.  A folder name is a token sequence, a destination subpath    *)
(* is the sequence of the names os.path.join has joined; the empty         *)
(* sequence stands for None.  Resource IDs of the model are shorter than   *)
(* eight characters, so file_id[:8] is the whole ID.                       *)
(***************************************************************************)
EXTENDS Integers, Sequences, FiniteSets, TLC

(***************************************************************************)
(* Bounds of the model.                                                    *)
(***************************************************************************)
MaxLinks == 2
MaxFolderLinks == 1
MaxWorkers == 2
MaxDepthBound == 2

(***************************************************************************)
(* Program constants.                                                      *)
(***************************************************************************)
DefaultMaxDepth == 5

None == "<None>"
NoFolder == << >>

(***************************************************************************)
(* Identity resolver: extract_file_id.                                     *)
(***************************************************************************)
\* The characters outside the class [a-zA-Z0-9_-].
Separators == {"/", "=", ".", "?", ":", "&", "%", " "}

\* The literal text of the four regular expressions (lines 38-43); each is
\* followed by the group ([a-zA-Z0-9_-]+).
patterns ==
    << << "/", "file", "/", "d", "/" >>,
       << "id", "=" >>,
       << "/", "folders", "/" >>,
       << "drive", ".", "google", ".", "com", "/", "open", "?", "id", "=" >> >>

\* The longest run of characters of the class that starts at symbol i of
\* url, '' when there is none.
RECURSIVE RunFrom(_, _)
RunFrom(url, i) ==
    IF i > Len(url) \/ url[i] \in Separators THEN ""
    ELSE url[i] \o RunFrom(url, i + 1)

\* re.search(pattern, url) tried at symbol i: the literal text of the
\* pattern, followed by at least one character of the class.
MatchesAt(pattern, url, i) ==
    /\ i + Len(pattern) <= Len(url)
    /\ \A k \in 1..Len(pattern) : url[i + k - 1] = pattern[k]
    /\ RunFrom(url, i + Len(pattern)) # ""

\* match.group(1) of the leftmost match, or None.
Search(pattern, url) ==
    LET hits == {i \in 1..Len(url) : MatchesAt(pattern, url, i)}
    IN  IF hits = {} THEN None
        ELSE LET i == CHOOSE j \in hits : \A k \in hits : j <= k
             IN  RunFrom(url, i + Len(pattern))

RECURSIVE FirstMatch(_, _)
FirstMatch(url, n) ==
    IF n > Len(patterns) THEN None
    ELSE IF Search(patterns[n], url) # None THEN Search(patterns[n], url)
    ELSE FirstMatch(url, n + 1)

extract_file_id(url) == FirstMatch(url, 1)

(***************************************************************************)
(* The remote service, as far as the program observes it.                  *)
(***************************************************************************)
\* IDs for which the folder-view request ends on a URL containing 'folders'.
WorldFolders == {"F", "G", "P", "Q", "R", "S", "T"}

\* The ID references in the body of the folder-view page of an ID, each with
\* the URL shape it appears in.
Ref(k, i) == [kind |-> k, id |-> i]
Page(id) ==
    CASE id = "F" -> {Ref("/folders/", "F"), Ref("id=", "G")}
      [] id = "G" -> {Ref("id=", "d")}
      [] id = "P" -> {Ref("/folders/", "P"), Ref("/folders/", "Q"), Ref("/file/d/", "f")}
      [] id = "Q" -> {Ref("/folders/", "P"), Ref("id=", "g")}
      [] id = "R" -> {Ref("/folders/", "S"), Ref("/folders/", "T"), Ref("/file/d/", "r")}
      [] id = "S" -> {Ref("/file/d/", "s")}
      [] id = "T" -> {Ref("/file/d/", "s"), Ref("id=", "u")}
      [] OTHER -> {}

\* The <title> of the folder-view page of an ID, << >> when the page has none.
Title(id) ==
    CASE id = "F" -> << "F", ":", "x", " - Google Drive" >>
      [] id = "G" -> << " ", "G", " - Google Drive" >>
      [] id = "P" -> << "P", " - Google Drive" >>
      [] id = "R" -> << "R", " - Google Drive" >>
      [] id = "S" -> << "S", " - Google Drive" >>
      [] OTHER -> << >>

(***************************************************************************)
(* is_folder and get_folder_name.                                          *)
(***************************************************************************)
\* 'folders' in response.url, for a request that returned.
is_folder(file_id) == file_id \in WorldFolders

Unsafe == {"<", ">", ":", "\"", "/", "\\", "|", "?", "*"}

\* str.replace(' - Google Drive', '')
RECURSIVE StripSuffix(_)
StripSuffix(s) ==
    IF s = << >> THEN << >>
    ELSE IF Head(s) = " - Google Drive" THEN StripSuffix(Tail(s))
    ELSE << Head(s) >> \o StripSuffix(Tail(s))

\* str.strip()
RECURSIVE LStrip(_)
LStrip(s) == IF s # << >> /\ Head(s) = " " THEN LStrip(Tail(s)) ELSE s
RECURSIVE RStrip(_)
RStrip(s) ==
    IF s # << >> /\ s[Len(s)] = " " THEN RStrip(SubSeq(s, 1, Len(s) - 1)) ELSE s
Strip(s) == RStrip(LStrip(s))

\* re.sub(r'[<>:"/\\|?*]', '_', name)
Sanitize(s) == [k \in 1..Len(s) |-> IF s[k] \in Unsafe THEN "_" ELSE s[k]]

FallbackFolderName(file_id) == << "folder_", file_id >>

\* get_folder_name; ok is FALSE when the request raises or the status is
\* not 200.
get_folder_name(file_id, ok) ==
    IF ok /\ Title(file_id) # << >>
    THEN LET folder_name == Sanitize(Strip(StripSuffix(Title(file_id))))
         IN  IF folder_name # << >> THEN folder_name
             ELSE FallbackFolderName(file_id)
    ELSE FallbackFolderName(file_id)

(***************************************************************************)
(* Metadata resolver: get_file_metadata and                                *)
(* get_extension_from_content_type.  A header value is a token sequence;   *)
(* a dot, a quote, a semicolon and a percent escape are tokens of their    *)
(* own.  The empty sequence stands for None and for ''.                    *)
(***************************************************************************)
\* '.' in filename
HasDot(s) == \E k \in 1..Len(s) : s[k] = "."

\* urllib.parse.unquote
Unquote(s) ==
    [k \in 1..Len(s) |->
        CASE s[k] = "%2F" -> "/"
          [] s[k] = "%2E" -> "."
          [] s[k] = "%20" -> " "
          [] s[k] = "%3A" -> ":"
          [] OTHER -> s[k]]

\* The characters the group [^"';]+ stops at.
GroupStops == {"\"", "'", ";"}

\* The longest run of tokens of h from position i on that [^"';]+ matches.
RECURSIVE GroupFrom(_, _)
GroupFrom(h, i) ==
    IF i > Len(h) \/ h[i] \in GroupStops \/ h[i] = "UTF-8''" THEN << >>
    ELSE << h[i] >> \o GroupFrom(h, i + 1)

\* filename\*?=["\']?(?:UTF-8\'\')?([^"\';]+) tried at position p: the group,
\* << >> when there is no match at p.
DirectiveAt(h, p) ==
    IF h[p] \notin {"filename=", "filename*="} THEN << >>
    ELSE LET q == IF p + 1 <= Len(h) /\ h[p + 1] \in {"\"", "'"}
                  THEN p + 2 ELSE p + 1
         IN  IF q <= Len(h) /\ h[q] = "UTF-8''"
             THEN IF GroupFrom(h, q + 1) # << >> THEN GroupFrom(h, q + 1)
                  ELSE << "UTF-8" >>
             ELSE GroupFrom(h, q)

\* re.search over Content-Disposition: group(1) of the leftmost match.
DispositionFilename(h) ==
    LET hits == {p \in 1..Len(h) : DirectiveAt(h, p) # << >>}
    IN  IF hits = {} THEN << >>
        ELSE DirectiveAt(h, CHOOSE p \in hits : \A q \in hits : p <= q)

\* The dict extensions, in its order.
extensions ==
    << << "image/jpeg", << ".", "jpg" >> >>,
       << "image/png", << ".", "png" >> >>,
       << "image/gif", << ".", "gif" >> >>,
       << "image/webp", << ".", "webp" >> >>,
       << "application/pdf", << ".", "pdf" >> >>,
       << "application/zip", << ".", "zip" >> >>,
       << "application/x-rar-compressed", << ".", "rar" >> >>,
       << "application/vnd.openxmlformats-officedocument.wordprocessingml.document",
          << ".", "docx" >> >>,
       << "application/vnd.openxmlformats-officedocument.spreadsheetml.sheet",
          << ".", "xlsx" >> >>,
       << "application/vnd.openxmlformats-officedocument.presentationml.presentation",
          << ".", "pptx" >> >>,
       << "text/plain", << ".", "txt" >> >>,
       << "text/html", << ".", "html" >> >>,
       << "video/mp4", << ".", "mp4" >> >>,
       << "audio/mpeg", << ".", "mp3" >> >> >>

\* get_extension_from_content_type: the first entry whose MIME type occurs in
\* content_type, '' when there is none.
get_extension_from_content_type(content_type) ==
    LET hits == {n \in 1..Len(extensions) :
                    \E k \in 1..Len(content_type) :
                        content_type[k] = extensions[n][1]}
    IN  IF hits = {} THEN << >>
        ELSE extensions[CHOOSE n \in hits : \A m \in hits : n <= m][2]

\* The export URL of an ID (lines 94 and 132).
DownloadUrl(file_id) ==
    << "https://drive.google.com/uc?id=", file_id, "&export=download" >>

\* The descriptor of the except branch, without the ID in the name.
FallbackDescriptorNoId(file_id) ==
    [filename |-> << "file_" >>, url |-> DownloadUrl(file_id),
     file_id |-> file_id, response |-> "None"]

\* Lines 128-135: the descriptor of the except branch.
FallbackDescriptor(file_id) ==
    [filename |-> << "file_", file_id >>, url |-> DownloadUrl(file_id),
     file_id |-> file_id, response |-> "None"]

\* An extension is added only to an empty name.
NeedsExtensionOnlyEmpty(filename) == filename = << >>

\* Line 115: not filename or '.' not in filename.
NeedsExtension(filename) == filename = << >> \/ ~HasDot(filename)

\* The answer to the request for the info page, and to the export request.
InfoPage(raises, status, title) ==
    [raises |-> raises, status |-> status, title |-> title]
ExportHeaders(raises, disposition, content_type) ==
    [raises |-> raises, disposition |-> disposition,
     content_type |-> content_type]

\* get_file_metadata, given what the two requests return.
get_file_metadata(file_id, info, export) ==
    IF info.raises \/ export.raises THEN FallbackDescriptor(file_id)
    ELSE
      LET titled == IF info.status = 200 /\ info.title # << >>
                    THEN Sanitize(Strip(StripSuffix(info.title)))
                    ELSE << >>
          header_filename ==
              IF export.disposition # << >>
              THEN Unquote(DispositionFilename(export.disposition))
              ELSE << >>
          named == IF header_filename # << >> /\ HasDot(header_filename)
                   THEN header_filename ELSE titled
          extension == get_extension_from_content_type(export.content_type)
          filename ==
              IF NeedsExtension(named)
              THEN IF named # << >> /\ extension # << >>
                   THEN named \o extension
                   ELSE IF named = << >>
                   THEN << "file_", file_id >> \o extension
                   ELSE named
              ELSE named
      IN  [filename |-> filename, url |-> DownloadUrl(file_id),
           file_id |-> file_id, response |-> "export"]

(***************************************************************************)
(* The destination of a download (lines 228-235).                          *)
(***************************************************************************)
\* self.download_dir, with the default of line 14.
DownloadDir == << "./downloads" >>

\* os.path.join(a, b) on POSIX: an absolute b discards a.
JoinPath(a, b) ==
    IF b # << >> /\ Head(b) = "/" THEN b ELSE a \o << "/" >> \o b

\* The string os.path.join has built from the names of a subpath.
RECURSIVE SubpathString(_)
SubpathString(fname) ==
    IF Len(fname) = 1 THEN fname[1]
    ELSE JoinPath(SubpathString(SubSeq(fname, 1, Len(fname) - 1)),
                  fname[Len(fname)])

\* Lines 228-235: filepath.
FilePath(folder_name, filename) ==
    LET save_dir == IF folder_name # NoFolder
                    THEN JoinPath(DownloadDir, SubpathString(folder_name))
                    ELSE DownloadDir
    IN  JoinPath(save_dir, filename)

(***************************************************************************)
(* State.                                                                  *)
(***************************************************************************)
VARIABLES
    links,       \* drive_links, the batch
    max_workers, \* self.max_workers
    pc,          \* position of download_multiple
    li,          \* index of the link the classification loop is at
    tasks,       \* the list tasks
    origin,      \* origin[t]: index of the link task t was queued for
    invalid,     \* indices of the links reported by 'Invalid link'
    max_depth,   \* max_depth of the running list_folder_items call
    xpc,         \* list_folder_items: "idle", "running", "returned"
    stack,       \* the activation records of list_folder_items
    ret,         \* the value the outermost list_folder_items returned
    fetchLog,    \* requests list_folder_items has issued, with their depth
    lprobeErr,   \* indices of the links whose kind probe (line 290) raised
    endpoint,    \* the responses the export endpoint gives during this run
    submitted,   \* number of tasks handed to executor.submit
    collected,   \* futures as_completed has yielded
    successful,  \* the counter successful
    failed,      \* the counter failed
    tpc,         \* tpc[t]: position of the download_file call of task t
    tresp,       \* tresp[t]: the local variable response of that call
    tresult,     \* tresult[t]: the value the call returned
    texit,       \* texit[t]: the return statement the call left by
    execCount,   \* execCount[t]: number of times a worker started task t
    tfirst,      \* tfirst[t]: first export response the call obtained
    tafter,      \* tafter[t]: export requests issued after that response
    lock,        \* self.lock: 0 when free, else the task whose call holds it
    tpath,       \* tpath[t]: the local variable filepath of that call
    tread,       \* tread[t]: chunks of the response body read so far
    twritten,    \* twritten[t]: chunks written to the file so far
    arg,         \* the arguments of a function called on its own
    out          \* the value that call returned

hvars == << arg, out >>
ovars == << links, max_workers, pc, li, tasks, origin, invalid, lprobeErr,
           endpoint, hvars >>
xvars == << max_depth, xpc, stack, ret, fetchLog >>
pvars == << submitted, collected, successful, failed >>
fvars == << lock, tpath, tread, twritten >>
tvars == << tpc, tresp, tresult, texit, execCount, tfirst, tafter, fvars >>
vars == << ovars, xvars, pvars, tvars >>

(***************************************************************************)
(* list_folder_items.                                                      *)
(***************************************************************************)
Task(fid, fname) == [fid |-> fid, fname |-> fname]

Frame(folder_id, parent_folder_name, depth) ==
    [fid |-> folder_id, name |-> parent_folder_name, depth |-> depth,
     st |-> "enter", todo |-> {}, results |-> << >>]

Fetch(id, depth, kind) == [id |-> id, depth |-> depth, kind |-> kind]

\* found_ids of the page of folder_id.
FoundIds(folder_id) == {r.id : r \in Page(folder_id)} \ {folder_id}

\* The depth check, one level late.
DepthExceededLate(depth, maxd) == depth > maxd + 1

\* Line 142: the depth check.
DepthExceeded(depth, maxd) == depth > maxd

\* results.extend(rv) that leaves out the IDs results already has.
ExtendDedup(results, rv) ==
    results \o SelectSeq(rv, LAMBDA task :
                  \A k \in 1..Len(results) : results[k].fid # task.fid)

\* Line 173: results.extend(rv).
Extend(results, rv) == results \o rv

\* The stack and the return value after the top activation returns rv.
Return(rv) ==
    IF Len(stack) = 1
    THEN /\ stack' = << >>
         /\ ret' = rv
         /\ xpc' = "returned"
    ELSE LET n == Len(stack) - 1
         IN  /\ stack' = [SubSeq(stack, 1, n) EXCEPT
                            ![n].results = Extend(stack[n].results, rv)]
             /\ UNCHANGED << ret, xpc >>

\* An exception in one activation ends the whole traversal.
OnPageErrorAborts ==
    /\ stack' = << >>
    /\ ret' = << >>
    /\ xpc' = "returned"

\* Lines 188-189: except Exception: return [].
OnPageError == Return(<< >>)

\* Lines 142-160: the depth check, the page request and the scan for IDs.
ExpEnter ==
    /\ xpc = "running"
    /\ stack # << >>
    /\ LET n == Len(stack)
           top == stack[n]
       IN  /\ top.st = "enter"
           /\ IF DepthExceeded(top.depth, max_depth)
              THEN /\ Return(<< >>)
                   /\ UNCHANGED fetchLog
              ELSE \E pageOk \in BOOLEAN, nameOk \in BOOLEAN :
                     IF ~pageOk
                     THEN /\ fetchLog' = fetchLog \cup
                                 {Fetch(top.fid, top.depth, "page"),
                                  Fetch(top.fid, top.depth, "failed")}
                          /\ OnPageError
                     ELSE /\ fetchLog' = fetchLog \cup
                                 {Fetch(top.fid, top.depth, "page")} \cup
                                 (IF top.name = NoFolder
                                  THEN {Fetch(top.fid, top.depth, "name")}
                                  ELSE {})
                          /\ stack' = [stack EXCEPT
                                 ![n].st = "loop",
                                 ![n].todo = FoundIds(top.fid),
                                 ![n].name =
                                    IF top.name # NoFolder THEN top.name
                                    ELSE << get_folder_name(top.fid, nameOk) >>]
                          /\ UNCHANGED << ret, xpc >>
    /\ UNCHANGED << ovars, pvars, tvars, max_depth >>

\* Lines 162-185: one iteration of 'for fid in found_ids'; a set is iterated
\* in no particular order.
ExpItem ==
    /\ xpc = "running"
    /\ stack # << >>
    /\ LET n == Len(stack)
           top == stack[n]
       IN  /\ top.st = "loop"
           /\ \E fid \in top.todo, probeOk \in BOOLEAN, nameOk \in BOOLEAN :
                LET heuristic == Ref("/folders/", fid) \in Page(top.fid)
                    is_f == IF heuristic THEN TRUE
                            ELSE IF probeOk THEN is_folder(fid) ELSE FALSE
                    child_name == get_folder_name(fid, nameOk)
                    combined_name == Append(top.name, child_name)
                IN  /\ fetchLog' = fetchLog \cup
                          (IF heuristic THEN {}
                           ELSE {Fetch(fid, top.depth + 1, "probe")}) \cup
                          (IF is_f THEN {Fetch(fid, top.depth + 1, "name")}
                           ELSE {})
                    /\ IF is_f
                       THEN stack' = Append(
                                [stack EXCEPT ![n].todo = top.todo \ {fid}],
                                Frame(fid, combined_name, top.depth + 1))
                       ELSE stack' = [stack EXCEPT
                                ![n].todo = top.todo \ {fid},
                                ![n].results =
                                    Append(top.results, Task(fid, top.name))]
    /\ UNCHANGED << ovars, pvars, tvars, max_depth, ret, xpc >>

\* Line 187: return results.
ExpReturn ==
    /\ xpc = "running"
    /\ stack # << >>
    /\ LET top == stack[Len(stack)]
       IN  /\ top.st = "loop"
           /\ top.todo = {}
           /\ Return(top.results)
    /\ UNCHANGED << ovars, pvars, tvars, max_depth, fetchLog >>

\* No function is called on its own.
NoCall == [fn |-> "none"]
NotReturned == [done |-> FALSE]
Returned(value) == [done |-> TRUE, value |-> value]
HarnessIdle == arg = NoCall /\ out = NotReturned

\* The state of the pool and of the workers before the pool is created.
PoolIdle ==
    /\ submitted = 0
    /\ collected = {}
    /\ successful = 0
    /\ failed = 0
    /\ tpc = << >>
    /\ tresp = << >>
    /\ tresult = << >>
    /\ texit = << >>
    /\ execCount = << >>
    /\ tfirst = << >>
    /\ tafter = << >>
    /\ lock = 0
    /\ tpath = << >>
    /\ tread = << >>
    /\ twritten = << >>

(***************************************************************************)
(* A call of list_folder_items on its own, for any root, parent name and   *)
(* depth limit.                                                            *)
(***************************************************************************)
ExpandRoots == {"F", "P", "R"}

\* A parent_folder_name the caller passes to the outermost call.
GivenName == << "top" >>

InitExpand ==
    /\ links = << >>
    /\ max_workers = 1
    /\ pc = "none"
    /\ li = 1
    /\ tasks = << >>
    /\ origin = << >>
    /\ invalid = {}
    /\ lprobeErr = {}
    /\ endpoint = {}
    /\ HarnessIdle
    /\ PoolIdle
    /\ max_depth \in 0..MaxDepthBound
    /\ xpc = "running"
    /\ \E root \in ExpandRoots, nm \in {NoFolder, << GivenName >>} :
          stack = << Frame(root, nm, 0) >>
    /\ ret = << >>
    /\ fetchLog = {}

NextExpand == ExpEnter \/ ExpItem \/ ExpReturn

SpecExpand == InitExpand /\ [][NextExpand]_vars

\* list_folder_items runs on the calling thread and every request it issues
\* returns or raises, so a call that can take a step takes it.
FairSpecExpand == InitExpand /\ [][NextExpand]_vars /\ WF_vars(NextExpand)

(***************************************************************************)
(* The export endpoint, as far as download_file observes it.               *)
(***************************************************************************)
Cookie(name, value) == [name |-> name, value |-> value]

Response(status, marker, cookies) ==
    [status |-> status, marker |-> marker, cookies |-> cookies, via |-> "none"]

\* metadata['response'] of the fallback descriptor (line 134): None.
NoResponse == Response(0, FALSE, << >>)

\* Responses the export endpoint may give to a request without a token:
\* status, 'download_warning' in response.text, response.cookies.
ExportResponses ==
    { Response(200, FALSE, << >>),
      Response(200, TRUE, << Cookie(<< "NID" >>, "n1"),
                             Cookie(<< "download_warning", "_x" >>, "t1") >>),
      Response(200, TRUE, << Cookie(<< "NID" >>, "n1") >>),
      Response(206, FALSE, << Cookie(<< "download_warning", "_x" >>, "t1"),
                              Cookie(<< "download_warning", "_y" >>, "t2") >>),
      Response(403, FALSE, << Cookie(<< "download_warning", "_x" >>, "t1") >>),
      Response(500, FALSE, << >>) }

\* The responses of a run that is about the batch rather than the handshake.
BatchResponses ==
    { Response(200, FALSE, << >>),
      Response(200, TRUE, << Cookie(<< "NID" >>, "n1"),
                             Cookie(<< "download_warning", "_x" >>, "t1") >>) }

\* The response to a request that carries a confirm token.
ConfirmedResponse == Response(200, FALSE, << >>)

Via(r, how) == [r EXCEPT !.via = how]

\* bool(response): None is false, and requests.Response.__bool__ is
\* Response.ok, false for a status of 400 or more.
Truthy(r) == r # NoResponse /\ r.status < 400

\* key.startswith('download_warning')
StartsWithWarning(name) == name # << >> /\ Head(name) = "download_warning"

\* Lines 246-250: the cookie the loop stops at, 0 when it runs to the end.
FirstWarningCookie(cookies) ==
    LET hits == {k \in 1..Len(cookies) : StartsWithWarning(cookies[k].name)}
    IN  IF hits = {} THEN 0
        ELSE CHOOSE k \in hits : \A j \in hits : k <= j

\* A request to the export URL of the task, with its confirm parameter.
ExportRequest(confirm) == [confirm |-> confirm]

(***************************************************************************)
(* download_file, run by a worker of the pool for task t.                  *)
(***************************************************************************)
Tasks == DOMAIN tasks

Running ==
    {t \in Tasks :
        tpc[t] \in {"probe", "meta", "metaprint", "resolve", "text",
                    "confirm", "save", "progress", "printing", "wait",
                    "report"}}

\* The call has its file open (lines 256-266).
FileOpen(t) == tpc[t] \in {"save", "progress", "printing"}

\* The response has a Content-Length (line 253): the file itself has one,
\* a warning page and an error do not.
HasLength(r) == r.status = 200 /\ ~r.marker

\* Chunks iter_content yields for the body of an export response.
BodyChunks == 2

\* What the two requests of get_file_metadata return for an ID when they do
\* not raise.
WorldInfo(file_id) == InfoPage(FALSE, 200, Title(file_id))
WorldExport(file_id) == ExportHeaders(FALSE, << >>, << "application/pdf" >>)

\* The call moves on to the statement at npc.
Goto(t, npc, resp, first, after) ==
    /\ tpc' = [tpc EXCEPT ![t] = npc]
    /\ tresp' = [tresp EXCEPT ![t] = resp]
    /\ tfirst' = [tfirst EXCEPT ![t] = first]
    /\ tafter' = [tafter EXCEPT ![t] = after]
    /\ UNCHANGED << tresult, texit, execCount, lock, twritten >>

\* The call returns, and an exception in it cancels the work items that no
\* worker has started.
ExitCancelling(t, value, how) ==
    LET drop == IF how \in {"except", "except-probe"}
                THEN {u \in Tasks : tpc[u] \in {"pending", "queued"}}
                ELSE {}
    IN  /\ tpc' = [u \in Tasks |-> IF u = t \/ u \in drop THEN "done" ELSE tpc[u]]
        /\ tresult' = [tresult EXCEPT ![t] = value]
        /\ texit' = [u \in Tasks |-> IF u = t THEN how
                                      ELSE IF u \in drop THEN "cancelled"
                                      ELSE texit[u]]
        /\ tresp' = [tresp EXCEPT ![t] = NoResponse]
        /\ tfirst' = [tfirst EXCEPT ![t] = NoResponse]
        /\ tafter' = [tafter EXCEPT ![t] = << >>]
        /\ tpath' = [tpath EXCEPT ![t] = << >>]
        /\ tread' = [tread EXCEPT ![t] = 0]
        /\ twritten' = [twritten EXCEPT ![t] = 0]
        /\ UNCHANGED execCount

\* The call returns value (lines 223, 271, 276); its locals are gone.
Exit(t, value, how) ==
    /\ tpc' = [tpc EXCEPT ![t] = "done"]
    /\ tresult' = [tresult EXCEPT ![t] = value]
    /\ texit' = [texit EXCEPT ![t] = how]
    /\ tresp' = [tresp EXCEPT ![t] = NoResponse]
    /\ tfirst' = [tfirst EXCEPT ![t] = NoResponse]
    /\ tafter' = [tafter EXCEPT ![t] = << >>]
    /\ tpath' = [tpath EXCEPT ![t] = << >>]
    /\ tread' = [tread EXCEPT ![t] = 0]
    /\ twritten' = [twritten EXCEPT ![t] = 0]
    /\ UNCHANGED execCount

\* The call arrives at 'with self.lock' of line 221, 268 or 274, on its way
\* to the return statement how; a file it had open is closed.
Report(t, how) ==
    /\ tpc' = [tpc EXCEPT ![t] = "wait"]
    /\ texit' = [texit EXCEPT ![t] = how]
    /\ UNCHANGED << tresult, execCount, tpath, lock >>

\* The locals response and what the call has requested, read and written.
Locals(t, resp, first, after, read, written) ==
    /\ tresp' = [tresp EXCEPT ![t] = resp]
    /\ tfirst' = [tfirst EXCEPT ![t] = first]
    /\ tafter' = [tafter EXCEPT ![t] = after]
    /\ tread' = [tread EXCEPT ![t] = read]
    /\ twritten' = [twritten EXCEPT ![t] = written]

KeepLocals == UNCHANGED << tresp, tfirst, tafter, tread, twritten >>

\* Lines 218-223: the kind probe of the task.
TaskProbe(t) ==
    /\ tpc[t] = "probe"
    /\ \E ok \in BOOLEAN :
         IF ~ok
         THEN Report(t, "except-probe") /\ KeepLocals
         ELSE IF is_folder(tasks[t].fid)
         THEN Report(t, "skip") /\ KeepLocals
         ELSE /\ Goto(t, "meta", tresp[t], tfirst[t], tafter[t])
              /\ UNCHANGED << tpath, tread >>
    /\ UNCHANGED << ovars, xvars, pvars >>

\* Lines 226-241: filename, save_dir, os.makedirs and filepath; resp is
\* metadata['response'], and when it is false the request of line 241 is
\* sent.
Destination(t, metadata, resp, dirOk) ==
    IF ~dirOk
    THEN Report(t, "except") /\ Locals(t, resp, resp, << >>, 0, 0)
    ELSE /\ IF Truthy(resp)
            THEN Goto(t, "text", resp, resp, << >>)
            ELSE Goto(t, "resolve", resp, resp,
                      IF resp # NoResponse THEN << ExportRequest(None) >>
                      ELSE << >>)
         /\ tpath' = [tpath EXCEPT
                        ![t] = FilePath(tasks[t].fname, metadata.filename)]
         /\ UNCHANGED tread

\* Lines 225-235: get_file_metadata, which catches its own exceptions, and
\* the destination.  When a request of get_file_metadata raises, the call is
\* at the print of line 129 next.
TaskMetadata(t) ==
    /\ tpc[t] = "meta"
    /\ \E r \in endpoint \cup {NoResponse} :
         IF r = NoResponse
         THEN /\ Goto(t, "metaprint", NoResponse, NoResponse, << >>)
              /\ UNCHANGED << tpath, tread >>
         ELSE \E dirOk \in BOOLEAN :
                Destination(t,
                            get_file_metadata(tasks[t].fid,
                                              WorldInfo(tasks[t].fid),
                                              WorldExport(tasks[t].fid)),
                            Via(r, "meta"), dirOk)
    /\ UNCHANGED << ovars, xvars, pvars >>

\* Lines 129-135 and 226-235: 'Error getting metadata' has been printed, the
\* fallback descriptor is returned, and the destination is made.
TaskMetadataFallback(t) ==
    /\ tpc[t] = "metaprint"
    /\ \E dirOk \in BOOLEAN :
         Destination(t, FallbackDescriptor(tasks[t].fid), NoResponse, dirOk)
    /\ UNCHANGED << ovars, xvars, pvars >>

\* Line 241: the request without a token returns a response, or raises.
TaskResolve(t) ==
    /\ tpc[t] = "resolve"
    /\ \E r \in endpoint, ok \in BOOLEAN :
         IF ~ok THEN Report(t, "except") /\ KeepLocals
         ELSE /\ Goto(t, "text", Via(r, "plain"),
                      IF tfirst[t] = NoResponse THEN Via(r, "plain")
                      ELSE tfirst[t],
                      tafter[t])
              /\ UNCHANGED << tpath, tread >>
    /\ UNCHANGED << ovars, xvars, pvars >>

\* Lines 252-256: total_size, and the file is opened.
Open(t, resp, after, read, openOk) ==
    IF ~openOk
    THEN Report(t, "except") /\ Locals(t, resp, tfirst[t], after, read, 0)
    ELSE /\ Goto(t, "save", resp, tfirst[t], after)
         /\ tread' = [tread EXCEPT ![t] = read]
         /\ UNCHANGED tpath

\* Lines 244-256: response.text reads the body of the response to the end.
\* With the warning and a warning cookie the request with the token is sent;
\* otherwise the file is opened.
TaskText(t) ==
    /\ tpc[t] = "text"
    /\ \E textOk \in BOOLEAN, openOk \in BOOLEAN :
         LET r1 == tresp[t]
             warn == r1.marker \/ r1.status # 200
             k == FirstWarningCookie(r1.cookies)
         IN  IF ~textOk
             THEN openOk /\ Report(t, "except") /\ KeepLocals
             ELSE IF warn /\ k # 0
             THEN /\ openOk
                  /\ Goto(t, "confirm", r1, tfirst[t],
                          Append(tafter[t],
                                 ExportRequest(r1.cookies[k].value)))
                  /\ tread' = [tread EXCEPT ![t] = BodyChunks]
                  /\ UNCHANGED tpath
             ELSE Open(t, r1, tafter[t], BodyChunks, openOk)
    /\ UNCHANGED << ovars, xvars, pvars >>

\* Lines 249-256: the request with the token returns a response, of which
\* nothing has been read, or raises; the file is opened.
TaskConfirm(t) ==
    /\ tpc[t] = "confirm"
    /\ \E ok \in BOOLEAN, openOk \in BOOLEAN :
         IF ~ok THEN openOk /\ Report(t, "except") /\ KeepLocals
         ELSE Open(t, Via(ConfirmedResponse, "confirm"), tafter[t], 0, openOk)
    /\ UNCHANGED << ovars, xvars, pvars >>

\* Lines 257-262: one iteration of the loop over iter_content.  A body that
\* response.text has read is only sliced; otherwise the chunk is read from
\* the connection.  The chunk is written, and with a Content-Length the
\* progress is to be printed.  An exception closes the file.
TaskChunk(t) ==
    /\ tpc[t] = "save"
    /\ twritten[t] < BodyChunks
    /\ \E outcome \in {"ok", "read raises", "write raises"} :
         LET streamed == tread[t] = twritten[t]
             read == IF streamed THEN tread[t] + 1 ELSE tread[t]
         IN  IF streamed /\ outcome = "read raises"
             THEN Report(t, "except") /\ KeepLocals
             ELSE IF outcome = "write raises"
             THEN /\ Report(t, "except")
                  /\ Locals(t, tresp[t], tfirst[t], tafter[t], read,
                            twritten[t])
             ELSE /\ tpc' = [tpc EXCEPT ![t] = IF HasLength(tresp[t])
                                               THEN "progress" ELSE "save"]
                  /\ Locals(t, tresp[t], tfirst[t], tafter[t], read,
                            twritten[t] + 1)
                  /\ UNCHANGED << tresult, texit, execCount, lock, tpath >>
    /\ UNCHANGED << ovars, xvars, pvars >>

\* Line 265: the call takes the lock for the progress line.
TaskProgress(t) ==
    /\ tpc[t] = "progress"
    /\ lock = 0
    /\ lock' = t
    /\ tpc' = [tpc EXCEPT ![t] = "printing"]
    /\ KeepLocals
    /\ UNCHANGED << ovars, xvars, pvars, tresult, texit, execCount, tpath >>

\* Line 266: the progress line is printed and the lock released.
TaskProgressEnd(t) ==
    /\ tpc[t] = "printing"
    /\ lock = t
    /\ lock' = 0
    /\ tpc' = [tpc EXCEPT ![t] = "save"]
    /\ KeepLocals
    /\ UNCHANGED << ovars, xvars, pvars, tresult, texit, execCount, tpath >>

\* Lines 256-257: iter_content is exhausted and the with block is left; the
\* file is closed, which can raise.
TaskSave(t) ==
    /\ tpc[t] = "save"
    /\ twritten[t] = BodyChunks
    /\ \E closeOk \in BOOLEAN :
         Report(t, IF closeOk THEN "ok" ELSE "except")
    /\ KeepLocals
    /\ UNCHANGED << ovars, xvars, pvars >>

\* Lines 221, 268, 274: the call takes the lock, and is at the print of its
\* message.
TaskLock(t) ==
    /\ tpc[t] = "wait"
    /\ lock = 0
    /\ lock' = t
    /\ tpc' = [tpc EXCEPT ![t] = "report"]
    /\ KeepLocals
    /\ UNCHANGED << ovars, xvars, pvars, tresult, texit, execCount, tpath >>

\* Lines 223, 271, 276: the message is printed, the lock is released and the
\* call returns.
TaskReturn(t) ==
    /\ tpc[t] = "report"
    /\ lock = t
    /\ lock' = 0
    /\ Exit(t, texit[t] = "ok", texit[t])
    /\ UNCHANGED << ovars, xvars, pvars >>

(***************************************************************************)
(* download_multiple.                                                      *)
(***************************************************************************)
\* tasks.append for the tasks queued for link i.
Enqueue(new, i) ==
    LET n == Len(new)
    IN  /\ tasks' = tasks \o new
        /\ origin' = origin \o [k \in 1..n |-> i]
        /\ tpc' = tpc \o [k \in 1..n |-> "pending"]
        /\ tresp' = tresp \o [k \in 1..n |-> NoResponse]
        /\ tresult' = tresult \o [k \in 1..n |-> FALSE]
        /\ texit' = texit \o [k \in 1..n |-> "none"]
        /\ execCount' = execCount \o [k \in 1..n |-> 0]
        /\ tfirst' = tfirst \o [k \in 1..n |-> NoResponse]
        /\ tafter' = tafter \o [k \in 1..n |-> << >>]
        /\ tpath' = tpath \o [k \in 1..n |-> << >>]
        /\ tread' = tread \o [k \in 1..n |-> 0]
        /\ twritten' = twritten \o [k \in 1..n |-> 0]
        /\ UNCHANGED lock

Classifying == pc = "classify" /\ li <= Len(links)

\* The link that matches no pattern ends the loop over the links.
ReportInvalidStops ==
    /\ Classifying
    /\ extract_file_id(links[li]) = None
    /\ invalid' = invalid \cup {li}
    /\ pc' = "aborted"
    /\ UNCHANGED << links, max_workers, li, tasks, origin, lprobeErr,
                    endpoint, hvars, xvars, pvars, tvars >>

\* Lines 304-305: the link matches no pattern.
ReportInvalid ==
    /\ Classifying
    /\ extract_file_id(links[li]) = None
    /\ invalid' = invalid \cup {li}
    /\ li' = li + 1
    /\ UNCHANGED << links, max_workers, pc, tasks, origin, lprobeErr,
                    endpoint, hvars, xvars, pvars, tvars >>

\* Line 290: the request of is_folder raises; nothing in download_multiple
\* catches it.
ProbeRaises ==
    /\ Classifying
    /\ extract_file_id(links[li]) # None
    /\ pc' = "aborted"
    /\ lprobeErr' = lprobeErr \cup {li}
    /\ UNCHANGED << links, max_workers, li, tasks, origin, invalid,
                    endpoint, hvars, xvars, pvars, tvars >>

\* Lines 300-303: the link is a file.
QueueFile ==
    /\ Classifying
    /\ extract_file_id(links[li]) # None
    /\ ~is_folder(extract_file_id(links[li]))
    /\ Enqueue(<< Task(extract_file_id(links[li]), NoFolder) >>, li)
    /\ li' = li + 1
    /\ UNCHANGED << links, max_workers, pc, invalid, lprobeErr, endpoint, hvars,
                    xvars, pvars >>

\* Lines 290-293: the link is a folder; list_folder_items is called.
ExpandFolder ==
    /\ Classifying
    /\ extract_file_id(links[li]) # None
    /\ is_folder(extract_file_id(links[li]))
    /\ \E nameOk \in BOOLEAN :
         LET file_id == extract_file_id(links[li])
             folder_name == get_folder_name(file_id, nameOk)
         IN  stack' = << Frame(file_id, << folder_name >>, 0) >>
    /\ pc' = "expanding"
    /\ xpc' = "running"
    /\ max_depth' = DefaultMaxDepth
    /\ fetchLog' = {}
    /\ UNCHANGED << links, max_workers, li, tasks, origin, invalid, lprobeErr,
                    endpoint, hvars, ret, pvars, tvars >>

\* Lines 294-299: the items of the folder are queued.
QueueItems ==
    /\ pc = "expanding"
    /\ xpc = "returned"
    /\ Enqueue(ret, li)
    /\ li' = li + 1
    /\ pc' = "classify"
    /\ xpc' = "idle"
    /\ UNCHANGED << links, max_workers, invalid, lprobeErr, endpoint, hvars,
                    max_depth, stack, ret, fetchLog, pvars >>

\* Lines 307-312: the loop over the links is over; the pool is created.
BeginPool ==
    /\ pc = "classify"
    /\ li > Len(links)
    /\ pc' = "pool"
    /\ successful' = 0
    /\ failed' = 0
    /\ UNCHANGED << links, max_workers, li, tasks, origin, invalid, lprobeErr,
                    endpoint, hvars, xvars, submitted, collected, tvars >>

\* Tasks are submitted as soon as they are in the list.
PoolOpenEarly == pc \in {"classify", "expanding", "pool"}

\* Lines 313-316 run only inside the with block.
PoolOpen == pc = "pool"

\* Lines 313-316: executor.submit for the next task of the list.
Submit ==
    /\ PoolOpen
    /\ submitted < Len(tasks)
    /\ tpc[submitted + 1] = "pending"
    /\ submitted' = submitted + 1
    /\ tpc' = [tpc EXCEPT ![submitted + 1] = "queued"]
    /\ UNCHANGED << ovars, xvars, collected, successful, failed,
                    tresp, tresult, texit, execCount, tfirst, tafter, fvars >>

\* One worker thread too many.
WorkerAvailableOneMore == Cardinality(Running) <= max_workers

\* ThreadPoolExecutor(max_workers=...): a worker thread is idle or can still
\* be created.
WorkerAvailable == Cardinality(Running) < max_workers

\* A worker takes the oldest work item of the queue of the executor.
StartTask(t) ==
    /\ tpc[t] = "queued"
    /\ \A u \in Tasks : tpc[u] = "queued" => t <= u
    /\ WorkerAvailable
    /\ tpc' = [tpc EXCEPT ![t] = "probe"]
    /\ execCount' = [execCount EXCEPT ![t] = @ + 1]
    /\ UNCHANGED << ovars, xvars, pvars, tresp, tresult, texit, tfirst, tafter,
                    fvars >>

\* Lines 318-322: as_completed yields a finished future; its result is
\* counted.
Collect(t) ==
    /\ pc = "pool"
    /\ submitted = Len(tasks)
    /\ tpc[t] = "done"
    /\ t \notin collected
    /\ collected' = collected \cup {t}
    /\ IF tresult[t]
       THEN successful' = successful + 1 /\ UNCHANGED failed
       ELSE failed' = failed + 1 /\ UNCHANGED successful
    /\ UNCHANGED << ovars, xvars, submitted, tvars >>

\* The loop over as_completed ends at the first future.
SomeCollected == tasks = << >> \/ collected # {}

\* The loop over as_completed ends when every future has been yielded.
AllCollected == collected = Tasks

\* Lines 323-330: the with block is left and the summary is printed.
Summary ==
    /\ pc = "pool"
    /\ submitted = Len(tasks)
    /\ AllCollected
    /\ pc' = "summary"
    /\ UNCHANGED << links, max_workers, li, tasks, origin, invalid, lprobeErr,
                    endpoint, hvars, xvars, pvars, tvars >>

(***************************************************************************)
(* A batch handed to download_multiple.                                    *)
(***************************************************************************)
LinkFileA ==
    << "https", ":", "/", "/", "drive", ".", "google", ".", "com",
       "/", "file", "/", "d", "/", "a", "/", "view" >>
LinkFolderF ==
    << "https", ":", "/", "/", "drive", ".", "google", ".", "com",
       "/", "drive", "/", "folders", "/", "F" >>
LinkBad == << "https", ":", "/", "/", "example", ".", "com", "/", "doc" >>

LinkSet == {LinkFileA, LinkFolderF, LinkBad}

FolderLinks(batch) ==
    {i \in DOMAIN batch : extract_file_id(batch[i]) \in WorldFolders}

Batches ==
    {b \in UNION {[1..n -> LinkSet] : n \in 0..MaxLinks} :
        Cardinality(FolderLinks(b)) <= MaxFolderLinks}

\* The state when download_multiple is entered with batch b.
Entered(b, responses) ==
    /\ links = b
    /\ max_workers \in 1..MaxWorkers
    /\ endpoint = responses
    /\ pc = "classify"
    /\ li = 1
    /\ tasks = << >>
    /\ origin = << >>
    /\ invalid = {}
    /\ lprobeErr = {}
    /\ HarnessIdle
    /\ PoolIdle
    /\ max_depth = DefaultMaxDepth
    /\ xpc = "idle"
    /\ stack = << >>
    /\ ret = << >>
    /\ fetchLog = {}

Init == \E b \in Batches : Entered(b, BatchResponses)

Next ==
    \/ ReportInvalid
    \/ ProbeRaises
    \/ QueueFile
    \/ ExpandFolder
    \/ ExpEnter
    \/ ExpItem
    \/ ExpReturn
    \/ QueueItems
    \/ BeginPool
    \/ Submit
    \/ \E t \in Tasks : StartTask(t)
    \/ \E t \in Tasks : TaskProbe(t)
    \/ \E t \in Tasks : TaskMetadata(t)
    \/ \E t \in Tasks : TaskMetadataFallback(t)
    \/ \E t \in Tasks : TaskResolve(t)
    \/ \E t \in Tasks : TaskText(t)
    \/ \E t \in Tasks : TaskConfirm(t)
    \/ \E t \in Tasks : TaskChunk(t)
    \/ \E t \in Tasks : TaskProgress(t)
    \/ \E t \in Tasks : TaskProgressEnd(t)
    \/ \E t \in Tasks : TaskSave(t)
    \/ \E t \in Tasks : TaskLock(t)
    \/ \E t \in Tasks : TaskReturn(t)
    \/ \E t \in Tasks : Collect(t)
    \/ Summary

Spec == Init /\ [][Next]_vars

(***************************************************************************)
(* Batches of file links only, against every response of the export       *)
(* endpoint.                                                               *)
(***************************************************************************)
FileBatches == UNION {[1..n -> {LinkFileA}] : n \in 1..MaxLinks}

InitFile == \E b \in FileBatches : Entered(b, ExportResponses)

NextFile ==
    \/ ProbeRaises
    \/ QueueFile
    \/ BeginPool
    \/ Submit
    \/ \E t \in Tasks : StartTask(t)
    \/ \E t \in Tasks : TaskProbe(t)
    \/ \E t \in Tasks : TaskMetadata(t)
    \/ \E t \in Tasks : TaskMetadataFallback(t)
    \/ \E t \in Tasks : TaskResolve(t)
    \/ \E t \in Tasks : TaskText(t)
    \/ \E t \in Tasks : TaskConfirm(t)
    \/ \E t \in Tasks : TaskChunk(t)
    \/ \E t \in Tasks : TaskProgress(t)
    \/ \E t \in Tasks : TaskProgressEnd(t)
    \/ \E t \in Tasks : TaskSave(t)
    \/ \E t \in Tasks : TaskLock(t)
    \/ \E t \in Tasks : TaskReturn(t)
    \/ \E t \in Tasks : Collect(t)
    \/ Summary

SpecFile == InitFile /\ [][NextFile]_vars

(***************************************************************************)
(* extract_file_id called on its own, for every URL of a few tokens.       *)
(***************************************************************************)
MaxUrlLen == 4

\* The pieces the URLs are put together from: the literal text of the
\* patterns, two IDs and a question mark.
UrlParts ==
    { << "/", "file", "/", "d", "/" >>,
      << "id", "=" >>,
      << "/", "folders", "/" >>,
      << "drive", ".", "google", ".", "com", "/", "open", "?" >>,
      << "a" >>,
      << "F" >>,
      << "?" >> }

RECURSIVE Flatten(_)
Flatten(parts) ==
    IF parts = << >> THEN << >> ELSE Head(parts) \o Flatten(Tail(parts))

Urls == {Flatten(parts) : parts \in UNION {[1..n -> UrlParts] : n \in 1..MaxUrlLen}}

\* Everything but the function called on its own is at rest.
OnlyHarness ==
    /\ links = << >>
    /\ max_workers = 1
    /\ pc = "none"
    /\ li = 1
    /\ tasks = << >>
    /\ origin = << >>
    /\ invalid = {}
    /\ lprobeErr = {}
    /\ endpoint = {}
    /\ PoolIdle
    /\ max_depth = DefaultMaxDepth
    /\ xpc = "idle"
    /\ stack = << >>
    /\ ret = << >>
    /\ fetchLog = {}

InitId ==
    /\ OnlyHarness
    /\ \E url \in Urls : arg = [fn |-> "extract_file_id", url |-> url]
    /\ out = NotReturned

CallExtractFileId ==
    /\ arg.fn = "extract_file_id"
    /\ ~out.done
    /\ out' = Returned(extract_file_id(arg.url))
    /\ UNCHANGED << links, max_workers, pc, li, tasks, origin, invalid,
                    lprobeErr, endpoint, arg, xvars, pvars, tvars >>

SpecId == InitId /\ [][CallExtractFileId]_vars

(***************************************************************************)
(* get_file_metadata and the destination path, on their own, for the       *)
(* answers of the two requests below.                                      *)
(***************************************************************************)
InfoTitles ==
    { << >>,
      << "Report", " - Google Drive" >>,
      << "v1", ".", "2", " - Google Drive" >>,
      << "a", ":", "b" >>,
      << " " >> }

InfoPages ==
    {InfoPage(TRUE, 0, << >>)} \cup
    {InfoPage(FALSE, st, ti) : st \in {200, 404}, ti \in InfoTitles}

Dispositions ==
    { << >>,
      << "attachment" >>,
      << "attachment", ";", " ", "filename=", "\"", "report", ".", "pdf", "\"" >>,
      << "attachment", ";", " ", "filename=", "\"", "/", "tmp", "/", "x", ".",
         "txt", "\"" >>,
      << "attachment", ";", " ", "filename*=", "UTF-8''", "a", "%2F", "b",
         "%2E", "txt" >>,
      << "attachment", ";", " ", "filename=", "notes" >> }

ContentTypes ==
    { << >>,
      << "application/pdf" >>,
      << "application/pdf", ";", " charset=binary" >>,
      << "application/octet-stream" >> }

ExportAnswers ==
    {ExportHeaders(TRUE, << >>, << >>)} \cup
    {ExportHeaders(FALSE, d, c) : d \in Dispositions, c \in ContentTypes}

FolderNames ==
    {NoFolder, << << "F", "_", "x" >> >>, << << "F", "_", "x" >>, << "G" >> >>}

InitMeta ==
    /\ OnlyHarness
    /\ \E file_id \in {"a", "F"}, info \in InfoPages, export \in ExportAnswers,
          fname \in FolderNames :
          arg = [fn |-> "get_file_metadata", file_id |-> file_id,
                 folder_name |-> fname, info |-> info, export |-> export]
    /\ out = NotReturned

\* Lines 225-235 of download_file.
CallGetFileMetadata ==
    /\ arg.fn = "get_file_metadata"
    /\ ~out.done
    /\ LET metadata == get_file_metadata(arg.file_id, arg.info, arg.export)
       IN  out' = Returned([metadata |-> metadata,
                            filepath |-> FilePath(arg.folder_name,
                                                  metadata.filename)])
    /\ UNCHANGED << links, max_workers, pc, li, tasks, origin, invalid,
                    lprobeErr, endpoint, arg, xvars, pvars, tvars >>

SpecMeta == InitMeta /\ [][CallGetFileMetadata]_vars

(***************************************************************************)
(* Properties.                                                             *)
(***************************************************************************)
Outcomes == {"ok", "skip", "except-probe", "except"}

\* C1: at any time, at most max_workers tasks are executing download_file.
C1_BoundedConcurrency == Cardinality(Running) <= max_workers

\* max_workers tasks execute while another one waits in the queue.
C1_Witness ==
    /\ Cardinality(Running) = max_workers
    /\ \E t \in Tasks : tpc[t] = "queued"

\* C2: when the summary is printed, every task has the outcome of its own
\* pipeline (True exactly when it left by 'return True'), whatever happened
\* to the other tasks, and the counters count exactly these outcomes; a batch
\* of two tasks of which one failed and one got through ends with 1 and 1.
C2_Isolation ==
    pc = "summary" =>
        /\ \A t \in Tasks : /\ texit[t] \in Outcomes
                            /\ tresult[t] = (texit[t] = "ok")
        /\ successful = Cardinality({t \in Tasks : texit[t] = "ok"})
        /\ failed = Cardinality({t \in Tasks : texit[t] # "ok"})

\* The summary of a batch of two tasks, one that raised and one that did not.
C2_Witness ==
    /\ pc = "summary"
    /\ Len(tasks) = 2
    /\ \E t, u \in Tasks : texit[t] = "except" /\ texit[u] = "ok"
    /\ successful = 1
    /\ failed = 1

\* C3: no failure of a request makes download_multiple end before the
\* summary.
C3_NoAbort == pc # "aborted"

\* C4: the summary is printed only when every queued task has returned, no
\* task is ever started twice, every task has then been started once, and
\* successful + failed is the number of queued tasks.
C4_JoinBarrier ==
    /\ \A t \in Tasks : execCount[t] <= 1
    /\ pc = "summary" =>
          /\ \A t \in Tasks : tpc[t] = "done" /\ execCount[t] = 1
          /\ successful + failed = Len(tasks)

\* The summary of a batch with a success and a failure.
C4_Witness ==
    /\ pc = "summary"
    /\ Len(tasks) >= 2
    /\ successful >= 1
    /\ failed >= 1

\* C5: the step that handles a link matching no pattern queues nothing and
\* leaves the loop at the next link of the batch.
C5_InvalidLinkSkipped ==
    [][(Classifying /\ extract_file_id(links[li]) = None)
          => (tasks' = tasks /\ li' = li + 1 /\ pc' = "classify")]_vars

\* A link was reported invalid and a later link of the batch was queued.
C5_Witness ==
    \E i \in invalid : \E t \in Tasks : origin[t] > i

\* C6: every invalid link of a batch is counted: the counts of the summary
\* account for each link that matches no pattern as well as for the tasks.
C6_InvalidCounted ==
    pc = "summary" =>
        successful + failed = Len(tasks) + Cardinality(invalid)

\* C7: once a task has been submitted, the loop over the links is over and
\* no call of list_folder_items is running.
C7_ExpandBeforeSchedule ==
    (\E t \in Tasks : tpc[t] # "pending") =>
        /\ pc \in {"pool", "summary"}
        /\ li > Len(links)
        /\ xpc # "running"
        /\ stack = << >>

\* A task that came out of the expansion of a folder is executing.
C7_Witness ==
    \E t \in Running : tasks[t].fname # NoFolder /\ xpc = "idle"

\* The tasks in the activation records and in the returned list.
EmittedTasks ==
    {ret[k] : k \in DOMAIN ret} \cup
    UNION {{stack[n].results[k] : k \in DOMAIN stack[n].results} :
              n \in DOMAIN stack}

\* C8, as claimed: list_folder_items sends no request for a folder below
\* max_depth, and every task comes from a folder at depth max_depth or less.
C8_NoFetchBelowLimit ==
    /\ \A e \in fetchLog : e.id \in WorldFolders => e.depth <= max_depth
    /\ \A task \in EmittedTasks : Len(task.fname) - 1 <= max_depth

\* C8, amended: no folder page below max_depth is requested for scanning and
\* every task comes from a folder at depth max_depth or less; the kind probe
\* and the name request of a child at depth max_depth + 1 are still issued,
\* and nothing deeper is requested.
C8_NoScanBelowLimit ==
    /\ \A e \in fetchLog : e.kind = "page" => e.depth <= max_depth
    /\ \A e \in fetchLog : e.depth <= max_depth + 1
    /\ \A n \in DOMAIN stack : stack[n].st = "loop" => stack[n].depth <= max_depth
    /\ \A task \in EmittedTasks : Len(task.fname) - 1 <= max_depth

\* The call returned tasks, and a sub-folder just below the limit was reached.
C8_Witness ==
    /\ xpc = "returned"
    /\ ret # << >>
    /\ \E e \in fetchLog : e.depth = max_depth + 1 /\ e.kind = "name"

\* C9: when the call is about to write the file: if the first export
\* response showed the warning (or a status other than 200) and had a warning
\* cookie, exactly one further request was issued, with the value of that
\* cookie as confirm, and its response is the one written; otherwise no
\* further request was issued and the first response is the one written.
C9_Handshake ==
    \A t \in Tasks : tpc[t] = "save" =>
        LET f == tfirst[t]
            k == FirstWarningCookie(f.cookies)
        IN  IF (f.marker \/ f.status # 200) /\ k # 0
            THEN /\ tafter[t] = << ExportRequest(f.cookies[k].value) >>
                 /\ tresp[t].via = "confirm"
            ELSE /\ tafter[t] = << >>
                 /\ tresp[t] = f

\* C10: a kind probe that raises makes the ID a file: while the links are
\* classified the link is queued as a file task, and in download_file the
\* call does not leave through the exception handler because of it.  (The
\* third call site, ExpItem, appends the child as a file task.)
C10_ProbeFailureAssumesFile ==
    /\ \A i \in lprobeErr :
          \E t \in Tasks : /\ origin[t] = i
                           /\ tasks[t] = Task(extract_file_id(links[i]), NoFolder)
    /\ \A t \in Tasks : texit[t] # "except-probe"

\* C11: when the request for the info page or the export request raises,
\* get_file_metadata returns the descriptor with the name file_<id> and the
\* export URL of the ID without a token.
C11_MetadataNeverRaises ==
    (arg.fn = "get_file_metadata" /\ out.done
        /\ (arg.info.raises \/ arg.export.raises)) =>
        /\ out.value.metadata.filename = << "file_", arg.file_id >>
        /\ out.value.metadata.url = DownloadUrl(arg.file_id)

\* The export request raised after the info page had given a title.
C11_Witness ==
    /\ arg.fn = "get_file_metadata"
    /\ out.done
    /\ ~arg.info.raises /\ arg.info.status = 200 /\ arg.info.title # << >>
    /\ arg.export.raises

\* C12: the filename of every descriptor has none of the unsafe characters,
\* and sanitizing it again changes nothing.
C12_FilenameSanitized ==
    (arg.fn = "get_file_metadata" /\ out.done) =>
        LET filename == out.value.metadata.filename
        IN  /\ \A k \in 1..Len(filename) : filename[k] \notin Unsafe
            /\ Sanitize(filename) = filename

EndsWith(s, suffix) ==
    /\ Len(s) >= Len(suffix)
    /\ SubSeq(s, Len(s) - Len(suffix) + 1, Len(s)) = suffix

\* No request raised, there is no Content-Disposition header and the content
\* type is application/pdf.
PdfWithoutDisposition ==
    /\ arg.fn = "get_file_metadata"
    /\ out.done
    /\ ~arg.info.raises /\ ~arg.export.raises
    /\ arg.export.disposition = << >>
    /\ \E k \in 1..Len(arg.export.content_type) :
          arg.export.content_type[k] = "application/pdf"

\* The name taken from the title of the info page, '' when there is none.
TitleCandidate ==
    IF arg.info.status = 200 /\ arg.info.title # << >>
    THEN Sanitize(Strip(StripSuffix(arg.info.title)))
    ELSE << >>

\* C13, as claimed: whatever the title, the filename ends in .pdf.
C13_PdfAlways ==
    PdfWithoutDisposition =>
        EndsWith(out.value.metadata.filename, << ".", "pdf" >>)

\* C13, amended: the filename ends in .pdf when the title is absent or has no
\* dot in it; a title with a dot is kept as it is.
C13_PdfUnlessDotted ==
    PdfWithoutDisposition =>
        IF HasDot(TitleCandidate)
        THEN out.value.metadata.filename = TitleCandidate
        ELSE EndsWith(out.value.metadata.filename, << ".", "pdf" >>)

\* A title without a dot got the extension.
C13_Witness ==
    /\ PdfWithoutDisposition
    /\ TitleCandidate = << "Report" >>
    /\ out.value.metadata.filename = << "Report", ".", "pdf" >>

\* The IDs a URL embeds in a file path or in a folder path.
PathIds(url) ==
    {Search(patterns[1], url), Search(patterns[3], url)} \ {None}

\* C14: for a URL with an ID in its path, the ID returned is one of the path,
\* also when the URL has an id= parameter.
C14_PathRulesFirst ==
    (arg.fn = "extract_file_id" /\ out.done /\ PathIds(arg.url) # {}) =>
        out.value \in PathIds(arg.url)

\* The names os.path.join puts together, as one string.
RECURSIVE SubpathText(_)
SubpathText(fname) ==
    IF Len(fname) = 1 THEN fname[1]
    ELSE SubpathText(SubSeq(fname, 1, Len(fname) - 1)) \o << "/" >>
            \o fname[Len(fname)]

\* C15: the file of a task is written to downloadDirectory/<subpath>/filename,
\* and directly to downloadDirectory/filename when the task has no subpath.
C15_WrittenUnderSubpath ==
    (arg.fn = "get_file_metadata" /\ out.done) =>
        out.value.filepath =
            DownloadDir
              \o (IF arg.folder_name = NoFolder THEN << >>
                  ELSE << "/" >> \o SubpathText(arg.folder_name))
              \o << "/" >> \o out.value.metadata.filename

\* The folder the outermost list_folder_items call was given.
Root == CHOOSE id \in ExpandRoots : Fetch(id, 0, "page") \in fetchLog

\* The display names get_folder_name can give a folder.
NameOptions(id) == {get_folder_name(id, TRUE), get_folder_name(id, FALSE)}

\* rest names the folders of a path from a child of folder down to a folder
\* whose page lists fid; with no name left, the page of folder lists it.
RECURSIVE MirrorsBelow(_, _, _)
MirrorsBelow(folder, rest, fid) ==
    IF rest = << >> THEN fid \in FoundIds(folder)
    ELSE \E child \in FoundIds(folder) :
            /\ rest[1] \in NameOptions(child)
            /\ MirrorsBelow(child, Tail(rest), fid)

\* C15, the part about expansion: the subpath of every task list_folder_items
\* returns is the name of the root (the one passed in, or its display name)
\* followed, in order, by the display names of the folders down to the one
\* whose page listed the file.
C15_SubpathMirrorsNesting ==
    xpc = "returned" =>
        \A k \in 1..Len(ret) :
            /\ ret[k].fname # << >>
            /\ ret[k].fname[1] \in NameOptions(Root) \cup {GivenName}
            /\ MirrorsBelow(Root, Tail(ret[k].fname), ret[k].fid)

\* Number of tasks in the result lists of the running activations and in the
\* value returned.
RECURSIVE EmittedIn(_)
EmittedIn(frames) ==
    IF frames = << >> THEN 0
    ELSE Len(Head(frames).results) + EmittedIn(Tail(frames))

TotalEmitted(frames, returned) == EmittedIn(frames) + Len(returned)

\* A step of the loop that found a file adds one task, and no other step,
\* a return included, adds or drops one.
EmittedKept ==
    TotalEmitted(stack', ret') =
        TotalEmitted(stack, ret) +
            (IF Len(stack') = Len(stack) /\ stack # << >>
                /\ stack[Len(stack)].st = "loop" THEN 1 ELSE 0)

\* C16: list_folder_items returns on every folder graph, cycles included, and
\* a task emitted along one branch is never dropped because another branch
\* emitted the same file ID.
C16_TerminatesKeepingDuplicates ==
    /\ <>(xpc = "returned")
    /\ [][EmittedKept]_vars

\* The call returned, with one file ID in two tasks.
C16_Witness ==
    /\ xpc = "returned"
    /\ \E j, k \in 1..Len(ret) :
          j # k /\ ret[j].fid = ret[k].fid /\ ret[j].fname # ret[k].fname

\* The page request of the activation for folder at depth raised.
PageFailed(folder, depth) == Fetch(folder, depth, "failed") \in fetchLog

\* The file IDs on the pages of the folders list_folder_items went into and
\* whose page request did not raise.
RECURSIVE ExpectedFids(_, _)
ExpectedFids(folder, depth) ==
    IF DepthExceeded(depth, max_depth) \/ PageFailed(folder, depth) THEN {}
    ELSE {fid \in FoundIds(folder) : ~is_folder(fid)} \cup
         UNION {ExpectedFids(fid, depth + 1) :
                  fid \in {c \in FoundIds(folder) :
                             Fetch(c, depth + 1, "name") \in fetchLog}}

\* C17: a page request that raised leaves out the files of that folder only;
\* every file listed by a folder that was entered and whose page request did
\* not raise is in the value the outermost call returns.
C17_BestEffort ==
    xpc = "returned" =>
        \A fid \in ExpectedFids(Root, 0) :
            \E k \in 1..Len(ret) : ret[k].fid = fid

\* The page of one sub-folder failed; the files of a sibling and the file the
\* root lists were returned.
C17_Witness ==
    /\ xpc = "returned"
    /\ \E folder \in WorldFolders : PageFailed(folder, 1)
    /\ ~PageFailed(Root, 0)
    /\ \E j, k \in 1..Len(ret) :
          Len(ret[j].fname) = 1 /\ Len(ret[k].fname) = 2

\* C18: no call has read more than one chunk of the body of its response
\* beyond what it has written to the file.
C18_Streaming ==
    \A t \in Tasks : tread[t] - twritten[t] <= 1

\* C19: a call that is printing a message holds the lock.
C19_PrintsUnderLock ==
    \A t \in Tasks :
        tpc[t] \in {"report", "printing", "metaprint"} => lock = t

\* C20: two calls that have their file open at the same time write to
\* different paths.
C20_DistinctOpenFiles ==
    \A t, u \in Tasks :
        (t # u /\ FileOpen(t) /\ FileOpen(u)) => tpath[t] # tpath[u]

====
